---- MODULE Spec2Model ----
(***************************************************************************)
(* track-stars: src/main.rs.  main parses the command line, reads the      *)
(* token, runs fetch (the cursor loop over fetch_page) and then writes one *)
(* CSV record per star through a buffered csv::Writer.                     *)
(***************************************************************************)
EXTENDS Integers, Sequences, FiniteSets, TLC

\* ---------------------------------------------------------------- bounds
\* Requests one run of the model may issue (the loop itself has no limit).
MaxPages == 3
\* Star events the simulated API hands out over one run.
MaxEvents == 3
\* Records the writer's buffer holds before it must flush to the file.
BufCap == 2
\* Star events of the one page the writing of rows starts from.
MaxRows == 3

\* ---------------------------------------------------------------- values
\* Option<T>
None == <<>>
Some(x) == <<x>>

\* usize -> decimal text, as the CSV serializer renders an integer field.
Digit(d) == CASE d = 0 -> "0" [] d = 1 -> "1" [] d = 2 -> "2" [] d = 3 -> "3"
              [] d = 4 -> "4" [] d = 5 -> "5" [] d = 6 -> "6" [] d = 7 -> "7"
              [] d = 8 -> "8" [] d = 9 -> "9"

RECURSIVE Dec(_)
Dec(n) == IF n < 10 THEN Digit(n) ELSE Dec(n \div 10) \o Digit(n % 10)

\* DateTime<Utc> -> text; a timestamp is a day of January 2024.
FmtDate(t) == "2024-01-" \o (IF t < 10 THEN "0" ELSE "") \o Dec(t) \o "T00:00:00Z"

FmtBool(b) == IF b THEN "true" ELSE "false"

\* Option<String> -> text: None is an empty field, Some(s) is s.
FmtOpt(o) == IF o = None THEN "" ELSE o[1]

\* struct Star / User / FollowCount
Star(t, login, email, location, followers, following, hireable) ==
  [starred_at |-> t,
   node |-> [login |-> login, email |-> email, location |-> location,
             followers |-> [total_count |-> followers],
             following |-> [total_count |-> following],
             is_hireable |-> hireable]]

\* Star events: absent optionals; the same with present and empty
\* optionals; present optionals; one absent and one present optional.
EvAbsent == Star(1, "ann", None, None, 0, 12, FALSE)
EvEmpty == Star(1, "ann", Some(""), Some(""), 0, 12, FALSE)
EvFull == Star(2, "bob", Some("b@x.io"), Some("Oslo"), 7, 3, TRUE)
EvMixed == Star(31, "cy", None, Some("Lima"), 100, 0, TRUE)

\* The star events the simulated API serves page by page.
Events == {EvAbsent, EvFull}

\* The star events the writing of rows is tried on.
RowEvents == {EvAbsent, EvEmpty, EvFull, EvMixed}

\* The opaque cursor the API returns for the end of its k-th page.
CursorAt(k) == "Y" \o Dec(k)

RECURSIVE SeqsUpTo(_, _)
SeqsUpTo(S, n) ==
  IF n = 0 THEN {<<>>}
  ELSE LET shorter == SeqsUpTo(S, n - 1)
       IN shorter \cup {Append(s, x) : s \in {q \in shorter : Len(q) = n - 1}, x \in S}

\* struct Stargazers with its PageInfo, flattened: a body that matches the
\* envelope (ok) or one that does not.
Page(edges, hasNext, endCursor) ==
  [ok |-> TRUE, edges |-> edges, has_next_page |-> hasNext, end_cursor |-> endCursor]
Garbage == [ok |-> FALSE, edges |-> <<>>, has_next_page |-> FALSE, end_cursor |-> None]

\* The pages the API may serve as its k-th answer with at most n edges: any
\* edges, either flag, with or without an end cursor.
Pages(k, n) ==
  {Page(e, h, c) : e \in SeqsUpTo(Events, n), h \in BOOLEAN,
                   c \in {None, Some(CursorAt(k))}}

\* What one request.send() can come back with.
Transport == [transport |-> TRUE, status |-> 0, body |-> Garbage]
Http(status, body) == [transport |-> FALSE, status |-> status, body |-> body]
Statuses == {200, 201, 404, 500}
NoResponse == [transport |-> FALSE, status |-> 0, body |-> Garbage]

\* is_success, were it to take every status below 500.
is_success_lax(status) == status >= 200 /\ status <= 499

\* StatusCode::is_success
is_success(status) == status >= 200 /\ status <= 299

\* eyre::Report: what failed, the status a remote error carries, and the
\* context wrappers from the innermost to the outermost.
NoError == [kind |-> "none", status |-> 0, context |-> <<>>]
Report(kind, status, context) == [kind |-> kind, status |-> status, context |-> context]

\* The records at the output path before the run: those of an earlier run.
OldRecord == <<"stale">>
OldFile == <<OldRecord>>

VARIABLES
  pc,             \* where main is
  argsOk,         \* the command line parses
  token,          \* GH_TOKEN: "missing", "invalid" (no header value), "ok"
  results,        \* fetch: results
  cursor,         \* fetch: cursor
  has_next_page,  \* fetch: has_next_page
  users,          \* fetch: users
  calls,          \* calls of fetch_page made by the loop
  after,          \* fetch_page: after
  response,       \* fetch_page: response
  requests,       \* the after clause of every POST sent, in order
  responses,      \* what every POST came back with, in order
  delays,         \* sleeps taken
  parses,         \* response bodies handed to the JSON parser
  progress,       \* the "Users: n" lines printed
  stars,          \* main: stars (None until fetch returns Ok)
  wtr,            \* csv::Writer: "none", "open", "dropped"
  header,         \* csv::Writer: header state, "Write" or "DidWrite"
  buf,            \* csv::Writer: buffered records
  file,           \* the records of the file at the output path
  idx,            \* main: position of the for loop in stars
  rows,           \* main: the Rows built by the for loop, in order
  ioFailed,       \* some write to the file failed
  exitCode,       \* -1 while running, then the process's exit status
  error           \* the report main ended with

vars == <<pc, argsOk, token, results, cursor, has_next_page, users, calls, after,
          response, requests, responses, delays, parses, progress, stars,
          wtr, header, buf, file, idx, rows, ioFailed, exitCode, error>>

fetchVars == <<results, cursor, has_next_page, users, calls, after, response>>
netVars == <<requests, responses, delays, parses, progress>>
outVars == <<stars, wtr, header, buf, file, idx, rows, ioFailed>>
envVars == <<argsOk, token>>

Init ==
  /\ pc = "parse"
  /\ argsOk \in BOOLEAN
  /\ token \in {"missing", "invalid", "ok"}
  /\ results = <<>>
  /\ cursor = None
  /\ has_next_page = TRUE
  /\ users = 0
  /\ calls = 0
  /\ after = None
  /\ response = NoResponse
  /\ requests = <<>>
  /\ responses = <<>>
  /\ delays = 0
  /\ parses = 0
  /\ progress = <<>>
  /\ stars = None
  /\ wtr = "none"
  /\ header = "Write"
  /\ buf = <<>>
  /\ file = OldFile
  /\ idx = 1
  /\ rows = <<>>
  /\ ioFailed = FALSE
  /\ exitCode = -1
  /\ error = NoError

\* main ends: Ok(()) exits 0, an Err report exits 1.
Exit(code, report) ==
  /\ pc' = "exit"
  /\ exitCode' = code
  /\ error' = report

Running ==
  /\ exitCode' = exitCode
  /\ error' = error

\* ------------------------------------------------------------------ main
\* Args::parse(): a malformed command line ends the process with status 2.
\* (color_eyre::install() before it fails only on a second call.)
ParseArgs ==
  /\ pc = "parse"
  /\ IF argsOk
       THEN pc' = "token" /\ Running
       ELSE Exit(2, Report("UsageError", 0, <<>>))
  /\ UNCHANGED <<fetchVars, netVars, outVars, envVars>>

\* The token, were it looked for only when a header is built from it.
ReadTokenLazy ==
  /\ pc = "token"
  /\ pc' = "loop"
  /\ Running
  /\ results' = <<>>
  /\ cursor' = None
  /\ has_next_page' = TRUE
  /\ users' = 0
  /\ UNCHANGED <<calls, after, response>>
  /\ UNCHANGED <<netVars, outVars, envVars>>

\* env::var("GH_TOKEN").expect(..): a missing token panics (status 101);
\* otherwise fetch starts with its four locals.
ReadToken ==
  /\ pc = "token"
  /\ IF token = "missing"
       THEN /\ Exit(101, Report("Panic", 0, <<>>))
            /\ UNCHANGED fetchVars
       ELSE /\ pc' = "loop"
            /\ Running
            /\ results' = <<>>
            /\ cursor' = None
            /\ has_next_page' = TRUE
            /\ users' = 0
            /\ UNCHANGED <<calls, after, response>>
  /\ UNCHANGED <<netVars, outVars, envVars>>

\* ----------------------------------------------------------------- fetch
\* A failed fetch_page, were the loop to try the page again.
FetchRetried(kind, status, inner) ==
  /\ pc' = "loop"
  /\ Running
  /\ results' = results

\* The report a failed fetch_page leaves main with: fetch wraps it with
\* "querying GitHub", main with "fetching stargazers"; results is dropped.
FetchFailed(kind, status, inner) ==
  /\ Exit(1, Report(kind, status, inner \o <<"querying GitHub", "fetching stargazers">>))
  /\ results' = <<>>

\* The loop condition, were it to stop after two pages as well.
LoopContinuesLimited(hasNext) == hasNext /\ calls < 2

\* while has_next_page
LoopContinues(hasNext) == hasNext

\* The head of the while loop: another fetch_page call, which takes the
\* cursor, or Ok(results) back in main, which announces the record count.
LoopHead ==
  /\ pc = "loop"
  /\ IF LoopContinues(has_next_page)
       THEN /\ pc' = "headers"
            /\ calls' = calls + 1
            /\ after' = cursor
            /\ UNCHANGED <<stars, results>>
       ELSE /\ pc' = "open"
            /\ stars' = Some(results)
            /\ results' = <<>>
            /\ UNCHANGED <<calls, after>>
  /\ Running
  /\ UNCHANGED <<cursor, has_next_page, users, response>>
  /\ UNCHANGED <<netVars, wtr, header, buf, file, idx, rows, ioFailed, envVars>>

\* ------------------------------------------------------------ fetch_page
\* The after clause, were an absent cursor to repeat the last clause sent.
after_clause_kept(a) ==
  IF a = None
    THEN IF requests = <<>> THEN "" ELSE requests[Len(requests)]
    ELSE ", after: \"" \o a[1] \o "\""

\* The after clause of the query text.
after_clause(a) == IF a = None THEN "" ELSE ", after: \"" \o a[1] \o "\""

\* HeaderValue::from_str on the bearer token: a token that is no header
\* value fails the call before the sleep.
BuildHeaders ==
  /\ pc = "headers"
  /\ IF token = "invalid"
       THEN FetchFailed("HeaderError", 0, <<>>)
       ELSE pc' = "sleep" /\ Running /\ UNCHANGED results
  /\ UNCHANGED <<cursor, has_next_page, users, calls, after, response>>
  /\ UNCHANGED <<netVars, outVars, envVars>>

\* The sleep, were it taken between requests only, not before the first.
SleepBetween ==
  /\ pc = "sleep"
  /\ pc' = "send"
  /\ delays' = IF requests = <<>> THEN delays ELSE delays + 1
  /\ Running
  /\ UNCHANGED <<fetchVars, requests, responses, parses, progress, outVars, envVars>>

\* sleep(Duration::from_secs(3)).await
Sleep ==
  /\ pc = "sleep"
  /\ pc' = "send"
  /\ delays' = delays + 1
  /\ Running
  /\ UNCHANGED <<fetchVars, requests, responses, parses, progress, outVars, envVars>>

\* send, were the next POST to leave while the last one is unanswered.
SendAhead ==
  /\ pc \in {"send", "await"}
  /\ Len(requests) < MaxPages
  /\ pc' = "await"
  /\ requests' = Append(requests, after_clause(after))
  /\ Running
  /\ UNCHANGED <<fetchVars, responses, delays, parses, progress, outVars, envVars>>

\* request.send(): the POST leaves with the query built from after.
Send ==
  /\ pc = "send"
  /\ Len(requests) < MaxPages
  /\ pc' = "await"
  /\ requests' = Append(requests, after_clause(after))
  /\ Running
  /\ UNCHANGED <<fetchVars, responses, delays, parses, progress, outVars, envVars>>

\* The bodies the API may send with a status as its k-th answer, with at
\* most n edges: with 200 any page or no envelope; with another status no
\* envelope or one page that announces a next page.
Bodies(status, k, n) ==
  IF status = 200 THEN Pages(k, n) \cup {Garbage}
  ELSE {Garbage,
        Page(IF n > 0 THEN <<EvFull>> ELSE <<>>, TRUE, Some(CursorAt(k)))}

\* What the API may answer: a transport failure, or a status with a body.
Answers ==
  {Transport}
    \cup UNION {{Http(s, b) : b \in Bodies(s, Len(responses) + 1,
                                             MaxEvents - Len(results))} :
                 s \in Statuses}

\* .await? on send: the response arrives, or the transport error is the
\* call's error.
Receive ==
  /\ pc = "await"
  /\ \E r \in Answers :
       /\ responses' = Append(responses, r)
       /\ response' = r
       /\ IF r.transport
            THEN FetchFailed("TransportError", 0, <<>>)
            ELSE pc' = "status" /\ Running /\ UNCHANGED results
  /\ UNCHANGED <<cursor, has_next_page, users, calls, after>>
  /\ UNCHANGED <<requests, delays, parses, progress, outVars, envVars>>

\* if response.status().is_success(): parse the body as the envelope,
\* else bail with the status.
CheckStatus ==
  /\ pc = "status"
  /\ IF is_success(response.status)
       THEN /\ parses' = parses + 1
            /\ IF response.body.ok
                 THEN pc' = "apply" /\ Running /\ UNCHANGED results
                 ELSE FetchFailed("ParseError", 0,
                                  <<"serializing GitHub response to JSON">>)
       ELSE /\ FetchFailed("RemoteError", response.status, <<>>)
            /\ UNCHANGED parses
  /\ UNCHANGED <<cursor, has_next_page, users, calls, after, response>>
  /\ UNCHANGED <<requests, responses, delays, progress, outVars, envVars>>

\* extend, were it to skip the events results already holds.
extend_dedup(acc, edges) ==
  acc \o SelectSeq(edges, LAMBDA e : \A i \in 1..Len(acc) : acc[i] # e)

\* results.extend(edges)
extend(acc, edges) == acc \o edges

\* The cursor, were it to keep its value when the page has no end cursor.
next_cursor_sticky(page) == IF page.end_cursor = None THEN cursor ELSE page.end_cursor

\* cursor = page_info.end_cursor
next_cursor(page) == page.end_cursor

\* The flag, were the page's one never to reach it.
next_has_next_page_stuck(page) == has_next_page

\* has_next_page = page_info.has_next_page
next_has_next_page(page) == page.has_next_page

\* Back in fetch with the page, were users the count of the page alone.
ApplyPageCountsPage ==
  /\ pc = "apply"
  /\ LET page == response.body
     IN /\ users' = Len(page.edges)
        /\ progress' = Append(progress, Len(page.edges))
        /\ results' = extend(results, page.edges)
        /\ cursor' = next_cursor(page)
        /\ has_next_page' = next_has_next_page(page)
  /\ pc' = "loop"
  /\ Running
  /\ UNCHANGED <<calls, after, response, requests, responses, delays, parses>>
  /\ UNCHANGED <<outVars, envVars>>

\* Back in fetch with the page: count, report, extend, take the cursor and
\* the flag.
ApplyPage ==
  /\ pc = "apply"
  /\ LET page == response.body
     IN /\ users' = users + Len(page.edges)
        /\ progress' = Append(progress, users + Len(page.edges))
        /\ results' = extend(results, page.edges)
        /\ cursor' = next_cursor(page)
        /\ has_next_page' = next_has_next_page(page)
  /\ pc' = "loop"
  /\ Running
  /\ UNCHANGED <<calls, after, response, requests, responses, delays, parses>>
  /\ UNCHANGED <<outVars, envVars>>

\* ------------------------------------------------------------ the output
\* Row, were the followers count to run on from the rows built before.
RowCounted(star) ==
  [date |-> star.starred_at,
   username |-> star.node.login,
   email |-> star.node.email,
   location |-> star.node.location,
   followers |-> star.node.followers.total_count + Len(rows),
   following |-> star.node.following.total_count,
   hireable |-> star.node.is_hireable]

\* Row, were an absent email or location to become an empty string.
RowDefaulted(star) ==
  [date |-> star.starred_at,
   username |-> star.node.login,
   email |-> IF star.node.email = None THEN Some("") ELSE star.node.email,
   location |-> IF star.node.location = None THEN Some("") ELSE star.node.location,
   followers |-> star.node.followers.total_count,
   following |-> star.node.following.total_count,
   hireable |-> star.node.is_hireable]

\* Row { date, username, email, location, followers, following, hireable }
Row(star) ==
  [date |-> star.starred_at,
   username |-> star.node.login,
   email |-> star.node.email,
   location |-> star.node.location,
   followers |-> star.node.followers.total_count,
   following |-> star.node.following.total_count,
   hireable |-> star.node.is_hireable]

\* The header record the writer derives from Row's field names.
HeaderRecord ==
  <<"date", "username", "email", "location", "followers", "following", "hireable">>

\* The record the writer derives from a Row: one text field per member.
CsvRecord(r) ==
  <<FmtDate(r.date), r.username, FmtOpt(r.email), FmtOpt(r.location),
    Dec(r.followers), Dec(r.following), FmtBool(r.hireable)>>

\* What a write of the buffer to the file can come to: the number of
\* records the file takes before the write fails, or all of them.
IoOutcomes == 0..BufCap

\* csv::Writer: the buffer goes to the file and is cleared; a write that
\* fails leaves the file with the records it took and the buffer as it was.
FlushBuf(b, f, io) ==
  IF b = <<>> THEN [ok |-> TRUE, buf |-> b, file |-> f]
  ELSE IF io >= Len(b) THEN [ok |-> TRUE, buf |-> <<>>, file |-> f \o b]
  ELSE [ok |-> FALSE, buf |-> b, file |-> f \o SubSeq(b, 1, io)]

\* The buffer, were a full one to be overwritten instead of flushed.
PutRecordLossy(b, f, rec, io) ==
  IF Len(b) < BufCap THEN [ok |-> TRUE, buf |-> Append(b, rec), file |-> f]
  ELSE [ok |-> TRUE, buf |-> <<rec>>, file |-> f]

\* csv::Writer: one record into the buffer, flushing first when it is full.
PutRecord(b, f, rec, io) ==
  IF Len(b) < BufCap THEN [ok |-> TRUE, buf |-> Append(b, rec), file |-> f]
  ELSE LET fl == FlushBuf(b, f, io)
       IN IF fl.ok THEN [ok |-> TRUE, buf |-> <<rec>>, file |-> fl.file] ELSE fl

\* csv::Writer::serialize: the header record before the first record, then
\* the record.
WriterSerialize(h, b, f, r, io) ==
  LET hd == IF h = "Write" THEN PutRecord(b, f, HeaderRecord, io)
            ELSE [ok |-> TRUE, buf |-> b, file |-> f]
  IN IF hd.ok THEN PutRecord(hd.buf, hd.file, CsvRecord(r), io) ELSE hd

\* The open, were the writer made before fetch is called.
OpenFileFirst ==
  /\ pc \in {"loop", "open"}
  /\ pc = "loop" => wtr = "none"
  /\ file' = <<>>
  /\ wtr' = "open"
  /\ pc' = IF pc = "open" THEN "write" ELSE pc
  /\ Running
  /\ UNCHANGED <<stars, header, buf, idx, rows, ioFailed>>
  /\ UNCHANGED <<fetchVars, netVars, envVars>>

\* csv::Writer::from_path: the file is created or truncated, or the open
\* fails and main ends with the report.
OpenFile ==
  /\ pc = "open"
  /\ \E ok \in BOOLEAN :
       IF ok
         THEN /\ file' = <<>>
              /\ wtr' = "open"
              /\ pc' = "write"
              /\ Running
         ELSE /\ Exit(1, Report("OpenError", 0, <<"opening output file path">>))
              /\ UNCHANGED <<file, wtr>>
  /\ UNCHANGED <<stars, header, buf, idx, rows, ioFailed>>
  /\ UNCHANGED <<fetchVars, netVars, envVars>>

\* One turn of the loop, were a star whose record cannot be written left
\* out and the loop to go on with the next one.
WriteRowSkipping ==
  /\ pc = "write"
  /\ idx <= Len(stars[1])
  /\ \E io \in IoOutcomes :
       LET w == WriterSerialize(header, buf, file, Row(stars[1][idx]), io)
       IN /\ rows' = Append(rows, Row(stars[1][idx]))
          /\ buf' = IF w.ok THEN w.buf ELSE <<>>
          /\ file' = w.file
          /\ header' = "DidWrite"
          /\ idx' = idx + 1
          /\ pc' = "write"
          /\ ioFailed' = (ioFailed \/ ~w.ok)
          /\ Running
          /\ UNCHANGED wtr
  /\ UNCHANGED stars
  /\ UNCHANGED <<fetchVars, netVars, envVars>>

\* One turn of for star in stars: the Row of the next star is serialized.
\* A failed write ends main with the report; the writer is then dropped,
\* and its drop flushes the buffer and ignores the outcome.
WriteRow ==
  /\ pc = "write"
  /\ idx <= Len(stars[1])
  /\ \E io \in IoOutcomes, dropIo \in IoOutcomes :
       LET w == WriterSerialize(header, buf, file, Row(stars[1][idx]), io)
           d == FlushBuf(w.buf, w.file, dropIo)
       IN /\ rows' = Append(rows, Row(stars[1][idx]))
          /\ IF w.ok
               THEN /\ buf' = w.buf
                    /\ file' = w.file
                    /\ header' = "DidWrite"
                    /\ idx' = idx + 1
                    /\ pc' = "write"
                    /\ Running
                    /\ UNCHANGED <<wtr, ioFailed>>
               ELSE /\ buf' = d.buf
                    /\ file' = d.file
                    /\ wtr' = "dropped"
                    /\ ioFailed' = TRUE
                    /\ Exit(1, Report("WriteError", 0, <<"writing star record">>))
                    /\ UNCHANGED <<header, idx>>
  /\ UNCHANGED stars
  /\ UNCHANGED <<fetchVars, netVars, envVars>>

\* The loop is over: Ok(()).  The writer is dropped, and its drop flushes
\* the buffer and ignores the outcome.
Finish ==
  /\ pc = "write"
  /\ idx > Len(stars[1])
  /\ \E dropIo \in IoOutcomes :
       LET d == FlushBuf(buf, file, dropIo)
       IN /\ buf' = d.buf
          /\ file' = d.file
          /\ ioFailed' = (ioFailed \/ ~d.ok)
  /\ wtr' = "dropped"
  /\ Exit(0, NoError)
  /\ UNCHANGED <<stars, header, idx, rows>>
  /\ UNCHANGED <<fetchVars, netVars, envVars>>

Next ==
  \/ ParseArgs
  \/ ReadToken
  \/ LoopHead
  \/ BuildHeaders
  \/ Sleep
  \/ Send
  \/ Receive
  \/ CheckStatus
  \/ ApplyPage
  \/ OpenFile
  \/ WriteRow
  \/ Finish

Spec == Init /\ [][Next]_vars

\* main from the return of fetch: fetch has returned the one page the API
\* had, a page of any star events.
InitRows ==
  \E es \in SeqsUpTo(RowEvents, MaxRows) :
    /\ pc = "open"
    /\ argsOk = TRUE
    /\ token = "ok"
    /\ results = <<>>
    /\ cursor = None
    /\ has_next_page = FALSE
    /\ users = Len(es)
    /\ calls = 1
    /\ after = None
    /\ response = Http(200, Page(es, FALSE, None))
    /\ requests = <<after_clause(None)>>
    /\ responses = <<Http(200, Page(es, FALSE, None))>>
    /\ delays = 1
    /\ parses = 1
    /\ progress = <<Len(es)>>
    /\ stars = Some(es)
    /\ wtr = "none"
    /\ header = "Write"
    /\ buf = <<>>
    /\ file = OldFile
    /\ idx = 1
    /\ rows = <<>>
    /\ ioFailed = FALSE
    /\ exitCode = -1
    /\ error = NoError

NextRows ==
  \/ OpenFile
  \/ WriteRow
  \/ Finish

SpecRows == InitRows /\ [][NextRows]_vars

\* main up to the return of fetch.
NextFetch ==
  \/ ParseArgs
  \/ ReadToken
  \/ LoopHead
  \/ BuildHeaders
  \/ Sleep
  \/ Send
  \/ Receive
  \/ CheckStatus
  \/ ApplyPage

\* The runtime keeps main running while it has a step to take, and a
\* request that was sent is answered.
FairFetch == Init /\ [][NextFetch]_vars /\ WF_vars(NextFetch)

\* The runtime keeps main running while it has a step to take, a request
\* that was sent is answered, and a write to the file returns.
FairMain == Spec /\ WF_vars(Next)

\* ------------------------------------------------------------ properties
\* An answer that is a page: it arrived, with a 2xx status, as an envelope.
IsPage(r) == ~r.transport /\ r.status \in 200..299 /\ r.body.ok

\* The answers the loop is through with: all but one still being looked at.
Settled == IF pc \in {"status", "apply"} THEN Len(responses) - 1 ELSE Len(responses)

\* edges(p1) ++ ... ++ edges(pk) of the first k answers.
RECURSIVE EdgesUpTo(_)
EdgesUpTo(k) == IF k = 0 THEN <<>> ELSE EdgesUpTo(k - 1) \o responses[k].body.edges

\* The sum of the edge counts of the first k answers.
RECURSIVE CountUpTo(_)
CountUpTo(k) == IF k = 0 THEN 0 ELSE CountUpTo(k - 1) + Len(responses[k].body.edges)

\* fetch is back in main with Ok.
FetchOk == stars # None

\* fetch is back in main with Err.
FetchErr ==
  /\ pc = "exit"
  /\ error.context # <<>>
  /\ error.context[Len(error.context)] = "fetching stargazers"

\* C1: pagination completeness.  After every turn of the loop the running
\* results are the concatenation of the edges of the pages fetched so far,
\* and what fetch returns is the concatenation over all pages p1..pn, pn
\* being the first page with has_next_page = false: as long as the sum of
\* the edge counts, nothing dropped, doubled, deduplicated or reordered.
C1_PaginationComplete ==
  /\ pc = "loop" =>
       /\ results = EdgesUpTo(Len(responses))
       /\ Len(results) = CountUpTo(Len(responses))
  /\ FetchOk =>
       /\ stars[1] = EdgesUpTo(Len(responses))
       /\ Len(stars[1]) = CountUpTo(Len(responses))
       /\ \A k \in 1..Len(responses) :
            /\ IsPage(responses[k])
            /\ responses[k].body.has_next_page = (k < Len(responses))

\* fetch returned three pages, the second empty, the third repeating an
\* event of the first.
C1_Witness ==
  /\ FetchOk
  /\ Len(responses) = 3
  /\ responses[1].body.edges = <<EvFull, EvAbsent>>
  /\ responses[2].body.edges = <<>>
  /\ responses[3].body.edges = <<EvFull>>
  /\ stars[1] = <<EvFull, EvAbsent, EvFull>>

\* The cursor argument a request carries for an end cursor.
Carried(c) == IF c = None THEN "" ELSE ", after: \"" \o c[1] \o "\""

\* C2: cursor threading.  The first request carries no cursor argument, and
\* the k-th request, k >= 2, carries exactly the end_cursor of the (k-1)-th
\* response.
C2_CursorThreading ==
  \A k \in 1..Len(requests) :
    IF k = 1 THEN requests[k] = ""
    ELSE requests[k] = Carried(responses[k - 1].body.end_cursor)

\* Three requests: the second and third carry the cursors of the first and
\* second page.
C2_Witness ==
  /\ Len(requests) = 3
  /\ requests[1] = ""
  /\ requests[2] = ", after: \"Y1\""
  /\ requests[3] = ", after: \"Y2\""

\* Every request but the last one issued was answered by a page with
\* has_next_page = true, so none follows a page with has_next_page = false;
\* fetch does not return Ok while the last page has has_next_page = true,
\* whatever its edges, its end cursor or the number of pages; after such a
\* page the loop goes on to the next call and request.
StopsOnFlag ==
  /\ \A k \in 1..(Len(requests) - 1) :
       IsPage(responses[k]) /\ responses[k].body.has_next_page
  /\ Len(requests) <= calls
  /\ \A k \in 1..(calls - 1) :
       IsPage(responses[k]) /\ responses[k].body.has_next_page
  /\ FetchOk =>
       /\ Len(requests) = calls
       /\ ~responses[Len(responses)].body.has_next_page
  /\ (pc = "loop" /\ responses # <<>>) =>
       has_next_page = responses[Len(responses)].body.has_next_page
  /\ (pc = "loop" /\ responses = <<>>) => has_next_page
  /\ \A k \in 1..Settled :
       (IsPage(responses[k]) /\ responses[k].body.has_next_page) =>
         (Len(requests) > k \/ pc \in {"loop", "headers", "sleep", "send"})

\* C3 as stated: the loop stops exactly when a response has has_next_page =
\* false, and at least one request is always issued: fetch never returns
\* without having issued one.
C3_AlwaysOneRequest ==
  /\ StopsOnFlag
  /\ (FetchOk \/ FetchErr) => Len(requests) >= 1

\* C3, amended: the loop stops exactly when a response has has_next_page =
\* false; fetch always makes at least one call of fetch_page, and that call
\* issues a request unless the token makes no header value, which ends
\* fetch with the error before any request.
C3_StopsOnFlag ==
  /\ StopsOnFlag
  /\ (FetchOk \/ FetchErr) =>
       /\ calls >= 1
       /\ (Len(requests) >= 1 \/ (token = "invalid" /\ error.kind = "HeaderError"))
  /\ FetchOk => Len(requests) >= 1
  /\ token = "invalid" => requests = <<>>

\* fetch returned after one page that has edges and has_next_page = false.
C3_Witness ==
  /\ FetchOk
  /\ Len(requests) = 1
  /\ responses[1].body.edges # <<>>
  /\ ~responses[1].body.has_next_page

\* C4: fatal abort.  When the fetch of page k fails (transport failure,
\* non-success status, body that is no envelope), fetch returns an error to
\* main, which ends with it; no edges of the pages before k are returned,
\* no request follows the k-th one (none for page k+1, none again for page
\* k), and nothing is written: the file is never opened.
C4_FatalAbort ==
  \A k \in 1..Len(responses) :
    ~IsPage(responses[k]) =>
      /\ k = Len(responses)
      /\ Len(requests) = k
      /\ calls = k
      /\ stars = None
      /\ wtr = "none"
      /\ buf = <<>>
      /\ file = OldFile
      /\ rows = <<>>
      /\ pc \in {"status", "exit"}
      /\ pc = "exit" => (exitCode = 1 /\ FetchErr /\ results = <<>>)

\* The second of two fetches failed with a non-success status after a
\* first page with edges, and main has ended.
C4_Witness ==
  /\ pc = "exit"
  /\ Len(responses) = 2
  /\ responses[1].body.edges # <<>>
  /\ responses[2].status = 500
  /\ error.kind = "RemoteError"

\* The last answer ends the loop: it is no page, or a page with
\* has_next_page = false.
Terminal ==
  /\ responses # <<>>
  /\ LET r == responses[Len(responses)]
     IN ~IsPage(r) \/ ~r.body.has_next_page

\* C5: termination.  Every request being answered, once the API has
\* answered with an error or with a page with has_next_page = false, fetch
\* returns; and fetch returns from the loop on such an answer only: while
\* every answer is a page with has_next_page = true it does not return,
\* however many pages there were.
C5_Termination ==
  /\ Terminal ~> (FetchOk \/ FetchErr)
  /\ []((responses # <<>> /\ (FetchOk \/ FetchErr)) => Terminal)

\* fetch returned Ok after as many pages as the model has room for.
C5_Witness ==
  /\ FetchOk
  /\ Len(responses) >= 3
  /\ Terminal

\* C6: strict sequencing.  At most one request is in flight at any time,
\* and a request is issued only when every earlier one has been answered
\* and the answer applied: results holds its edges, cursor its end_cursor,
\* has_next_page its flag, and the request carries that cursor.
C6_StrictSequencing ==
  /\ [](Len(requests) - Len(responses) \in {0, 1})
  /\ []((Len(requests) - Len(responses) = 1) <=> (pc = "await"))
  /\ [][requests' # requests =>
          /\ Len(responses) = Len(requests)
          /\ Len(requests') = Len(requests) + 1
          /\ Settled = Len(responses)
          /\ results = EdgesUpTo(Len(responses))
          /\ users = CountUpTo(Len(responses))
          /\ responses # <<>> =>
               LET p == responses[Len(responses)].body
               IN /\ cursor = p.end_cursor
                  /\ after = p.end_cursor
                  /\ has_next_page = p.has_next_page]_vars

\* The third request is in flight, two pages with edges applied.
C6_Witness ==
  /\ pc = "await"
  /\ Len(requests) = 3
  /\ Len(responses) = 2
  /\ responses[1].body.edges # <<>>
  /\ responses[2].body.edges # <<>>

\* The records of a file other than header records.
DataRows(f) == SelectSeq(f, LAMBDA r : r # HeaderRecord)

\* main returned Ok and every write to the file went through.
WrittenOk == pc = "exit" /\ exitCode = 0 /\ ~ioFailed

\* C7: end-to-end ordering.  On a run where every fetch and every write
\* succeeds, the output file has exactly one data row per star event, and
\* the i-th data row is the projection of the i-th event in fetch order:
\* page order, then the order of the edges within a page.
C7_EndToEndOrder ==
  WrittenOk =>
    LET data == DataRows(file)
        fetched == EdgesUpTo(Len(responses))
    IN /\ Len(data) = Len(fetched)
       /\ Len(data) = CountUpTo(Len(responses))
       /\ \A i \in 1..Len(data) : data[i] = CsvRecord(Row(fetched[i]))

\* Pages [e1, e2] with cursor then [e3]: the file has the three rows e1,
\* e2, e3 after its header.
C7_Witness ==
  /\ WrittenOk
  /\ Len(responses) = 2
  /\ responses[1].body = Page(<<EvFull, EvAbsent>>, TRUE, Some("Y1"))
  /\ responses[2].body = Page(<<EvFull>>, FALSE, None)
  /\ file = <<HeaderRecord,
              <<"2024-01-02T00:00:00Z", "bob", "b@x.io", "Oslo", "7", "3", "true">>,
              <<"2024-01-01T00:00:00Z", "ann", "", "", "0", "12", "false">>,
              <<"2024-01-02T00:00:00Z", "bob", "b@x.io", "Oslo", "7", "3", "true">>>>

\* C8: output file shape.  For any number of star events, zero included, a
\* successfully written file is exactly one header row followed by exactly
\* one data row per star event: the header never missing, never repeated.
C8_FileShape ==
  WrittenOk =>
    /\ Len(file) = 1 + Len(stars[1])
    /\ file[1] = HeaderRecord
    /\ \A i \in 2..Len(file) : file[i] # HeaderRecord

\* The star the k-th Row was built from.
StarOf(k) == stars[1][k]

\* The data records put into the writer so far, in order, while no write
\* to the file has failed: those in the file, then those still in the
\* buffer.
Put == IF wtr = "none" \/ ioFailed THEN <<>> ELSE DataRows(file \o buf)

\* Every Row has the fields of its star: date = starred_at, username =
\* login, the two counts, hireable = is_hireable, email and location as
\* they are, absent when absent; one Row per star, none left out.
RowsAreStars ==
  /\ stars = None => rows = <<>>
  /\ rows # <<>> => Len(rows) <= Len(stars[1])
  /\ Len(rows) \in {idx - 1, idx}
  /\ WrittenOk => Len(rows) = Len(stars[1])
  /\ \A k \in 1..Len(rows) :
       /\ rows[k].date = StarOf(k).starred_at
       /\ rows[k].username = StarOf(k).node.login
       /\ rows[k].email = StarOf(k).node.email
       /\ rows[k].location = StarOf(k).node.location
       /\ rows[k].followers = StarOf(k).node.followers.total_count
       /\ rows[k].following = StarOf(k).node.following.total_count
       /\ rows[k].hireable = StarOf(k).node.is_hireable
       /\ (rows[k].email = None) <=> (StarOf(k).node.email = None)
       /\ (rows[k].location = None) <=> (StarOf(k).node.location = None)
  /\ \A j, k \in 1..Len(rows) : (rows[j] = rows[k]) <=> (StarOf(j) = StarOf(k))

With2xx(n) == {k \in 1..n : ~responses[k].transport /\ responses[k].status \in 200..299}

\* C10: the outcome of fetch_page.  It returns a page if and only if the
\* status is 2xx and the body is an envelope.  A non-2xx status gives a
\* RemoteError with that status whatever the body is, the body not being
\* parsed; a 2xx status with a body that is no envelope gives a ParseError;
\* in neither case is the request sent again.
C10_Classification ==
  /\ \A k \in 1..Settled :
       LET r == responses[k]
       IN /\ (~r.transport /\ r.status \in 200..299 /\ r.body.ok) <=> Len(progress) >= k
          /\ (~r.transport /\ r.status \notin 200..299) =>
               /\ pc = "exit"
               /\ error.kind = "RemoteError"
               /\ error.status = r.status
               /\ Len(requests) = k
          /\ (~r.transport /\ r.status \in 200..299 /\ ~r.body.ok) =>
               /\ pc = "exit"
               /\ error.kind = "ParseError"
               /\ Len(requests) = k
  /\ parses = Cardinality(With2xx(Settled)) + (IF pc = "apply" THEN 1 ELSE 0)
  /\ pc = "apply" => IsPage(response)

\* The second answer had status 404 and a body that is an envelope: main
\* ended with the RemoteError, the body unparsed.
C10_Witness ==
  /\ pc = "exit"
  /\ Len(responses) = 2
  /\ responses[2].status = 404
  /\ responses[2].body.ok
  /\ error.kind = "RemoteError"
  /\ error.status = 404
  /\ parses = 1

\* The configuration is in error: the command line does not parse or
\* GH_TOKEN is not set.
ConfigError == ~argsOk \/ token = "missing"

\* C11: configuration errors precede all network activity.  With a
\* command line that does not parse or with no GH_TOKEN set, main ends in
\* failure (a status other than 0) having made no call of fetch_page, sent
\* no request, taken no delay and opened no file: the file at the output
\* path is as it was.
C11_ConfigBeforeNetwork ==
  /\ [](ConfigError =>
          /\ pc \in {"parse", "token", "exit"}
          /\ calls = 0
          /\ requests = <<>>
          /\ responses = <<>>
          /\ delays = 0
          /\ wtr = "none"
          /\ file = OldFile
          /\ pc = "exit" => (exitCode \in {2, 101}
                              /\ error.kind \in {"UsageError", "Panic"}))
  /\ ConfigError ~> (pc = "exit" /\ exitCode # 0)

\* main has ended on the missing token, the command line being well formed.
C11_Witness ==
  /\ argsOk
  /\ token = "missing"
  /\ pc = "exit"
  /\ exitCode = 101

\* Some step of the run that has ended failed: a header could not be
\* built, an answer was no page (transport failure, non-success status,
\* body that is no envelope), the open failed, or a write to the file did.
StepFailed ==
  \/ token = "invalid" /\ calls > 0
  \/ \E k \in 1..Len(responses) : ~IsPage(responses[k])
  \/ error.kind = "OpenError"
  \/ ioFailed

\* The stage a report is tagged with: its outermost context.
Stage(report) ==
  IF report.context = <<>> THEN "none" ELSE report.context[Len(report.context)]

\* C12: no error is silently swallowed.  Once main has ended, a failed
\* step (building headers, sending, a non-success status, parsing, opening
\* the file, serializing a row, flushing the buffered rows) means a status
\* other than 0 and a report tagged with the stage, fetching or writing
\* the output; and status 0 means that the file holds the row of every
\* fetched event.
C12_NoErrorSwallowed ==
  pc = "exit" =>
    /\ StepFailed =>
          /\ exitCode = 1
          /\ Stage(error) \in {"fetching stargazers", "opening output file path",
                                "writing star record"}
          /\ (stars = None) <=> (Stage(error) = "fetching stargazers")
    /\ exitCode = 0 =>
          /\ stars # None
          /\ DataRows(file) = [k \in 1..Len(stars[1]) |-> CsvRecord(Row(stars[1][k]))]

\* C13: one delay, then one POST, in every fetch_page call that gets to
\* send.  A call sends at most one request; every request leaves right
\* after a delay of its own, the first one included, and every delay is
\* followed by nothing but its request: n requests, n delays.
C13_DelayBeforeEachRequest ==
  /\ [](delays = Len(requests) + (IF pc = "send" THEN 1 ELSE 0))
  /\ [](calls - Len(requests) \in {0, 1})
  /\ []((calls = Len(requests) + 1) =>
          (pc \in {"headers", "sleep", "send"} \/ (pc = "exit" /\ token = "invalid")))
  /\ [][requests' # requests =>
          /\ pc = "send"
          /\ delays = Len(requests) + 1
          /\ delays' = delays
          /\ Len(requests') = Len(requests) + 1]_vars
  /\ [][delays' # delays =>
          /\ delays' = delays + 1
          /\ requests' = requests
          /\ pc' = "send"]_vars

\* The second request has left, after the second delay.
C13_Witness ==
  /\ pc = "await"
  /\ Len(requests) = 2
  /\ delays = 2
  /\ calls = 2

\* C14: idempotent projection.  The Row built from a star event depends
\* on the event alone: the same event at two positions of stars, whatever
\* was projected before and between, gives the same Row twice, and the
\* same record put into the writer.
C14_IdempotentProjection ==
  /\ \A j, k \in 1..Len(rows) : (StarOf(j) = StarOf(k)) => (rows[j] = rows[k])
  /\ \A j, k \in 1..Len(Put) : (StarOf(j) = StarOf(k)) => (Put[j] = Put[k])

\* The same event was projected first and third, another one in between.
C14_Witness ==
  /\ Len(rows) = 3
  /\ StarOf(1) = StarOf(3)
  /\ StarOf(2) # StarOf(1)
  /\ rows[1] = rows[3]
  /\ rows[2] # rows[1]

\* The pages fetch has counted: the answers it is through with that are
\* pages.
PagesApplied == Cardinality({k \in 1..Settled : IsPage(responses[k])})

\* C15: progress reporting.  One report per fetched page and none for a
\* failed fetch; the k-th report is the sum of the edge counts of pages
\* 1..k, the length of results with page k appended; the reports never
\* decrease, and the last one is the number of events fetch returns.
C15_ProgressReports ==
  /\ [](Len(progress) = PagesApplied)
  /\ [](\A k \in 1..Len(progress) :
          /\ progress[k] = CountUpTo(k)
          /\ progress[k] = Len(EdgesUpTo(k))
          /\ k > 1 => progress[k - 1] <= progress[k])
  /\ [](pc \in {"loop", "headers", "sleep", "send", "await", "status", "apply"} =>
          /\ users = Len(results)
          /\ progress # <<>> => progress[Len(progress)] = users)
  /\ [](FetchOk => (progress # <<>> /\ progress[Len(progress)] = Len(stars[1])))
  /\ [](FetchErr => Len(progress) = Len(responses) - (IF responses = <<>> THEN 0 ELSE 1))
  /\ [][progress' # progress =>
          /\ pc = "apply"
          /\ IsPage(response)
          /\ Len(progress') = Len(progress) + 1
          /\ progress'[Len(progress')] = Len(results')]_vars

\* fetch returned three events after three reports, the second page
\* having had no edges.
C15_Witness ==
  /\ FetchOk
  /\ Len(stars[1]) = 3
  /\ progress = <<1, 1, 3>>

\* C16: the fetch phase strictly precedes the write phase.  The file is
\* opened, and so created or truncated, only once fetch has returned Ok
\* with the whole list; from the open on no request is sent, no delay
\* taken and no answer received; and when fetch fails the file at the
\* output path stays as it was and no writer is ever made.
C16_FetchBeforeWrite ==
  /\ []((wtr # "none" \/ file # OldFile) =>
          /\ FetchOk
          /\ stars[1] = EdgesUpTo(Len(responses))
          /\ Len(requests) = Len(responses)
          /\ ~responses[Len(responses)].body.has_next_page
          /\ pc \in {"write", "exit"})
  /\ [][(wtr' # "none" \/ file' # file) =>
          /\ requests' = requests
          /\ responses' = responses
          /\ delays' = delays
          /\ calls' = calls
          /\ stars' = stars]_vars
  /\ [](FetchErr => (wtr = "none" /\ file = OldFile /\ buf = <<>> /\ stars = None))

\* The file was opened after two pages, and the old record is gone.
C16_Witness ==
  /\ wtr = "open"
  /\ Len(requests) = 2
  /\ Len(responses) = 2
  /\ Len(stars[1]) = 2
  /\ file = <<>>

\* The k-th answer is a page that announces a next page and has no end
\* cursor.
NextWithoutCursor(k) ==
  /\ IsPage(responses[k])
  /\ responses[k].body.has_next_page
  /\ responses[k].body.end_cursor = None

\* C17: a page with has_next_page = true and no end_cursor.  The request
\* after it has no after argument and so is the initial request again;
\* fetch neither returns nor fails on such a page, it goes on to the next
\* call.
C17_NextWithoutCursor ==
  /\ [](\A k \in 1..Len(responses) :
          NextWithoutCursor(k) =>
            /\ k < Len(requests) =>
                  (requests[k + 1] = "" /\ requests[k + 1] = requests[1])
            /\ k = Len(requests) =>
                  /\ pc \in {"status", "apply", "loop", "headers", "sleep", "send"}
                  /\ stars = None
                  /\ exitCode = -1
                  /\ pc \in {"headers", "sleep", "send"} => after = None
                  /\ pc = "loop" => (has_next_page /\ cursor = None))
  /\ [][(requests' # requests /\ responses # <<>>
           /\ NextWithoutCursor(Len(responses))) =>
          requests' = Append(requests, requests[1])]_vars

\* The third request followed a page with a next page and no cursor, the
\* second one having carried the first page's cursor.
C17_Witness ==
  /\ Len(requests) = 3
  /\ Len(responses) >= 2
  /\ NextWithoutCursor(2)
  /\ requests[2] # ""
  /\ requests[3] = requests[1]

\* The records D[n], D[n+1], .. are records of the events p..last, taken
\* in event order (an event may be taken again, none is taken after a
\* later one).
RECURSIVE InEventOrder(_, _, _, _)
InEventOrder(D, n, p, last) ==
  IF n > Len(D) THEN TRUE
  ELSE LET qs == {q \in p..last : CsvRecord(Row(StarOf(q))) = D[n]}
       IN /\ qs # {}
          /\ InEventOrder(D, n + 1, CHOOSE q \in qs : \A r \in qs : q <= r, last)

\* C18: write abort.  When serializing the Row of event i fails, main
\* ends at once with status 1 and the report of the writing stage; no Row
\* of a later event is built or put into the writer.  A Row is serialized
\* only when the Rows of all events before it were serialized with
\* success, and the data rows of the file are rows of those events only,
\* in event order.
C18_WriteAbort ==
  /\ [](ioFailed /\ exitCode # 0 =>
          /\ pc = "exit"
          /\ exitCode = 1
          /\ error.kind = "WriteError"
          /\ Stage(error) = "writing star record"
          /\ wtr = "dropped"
          /\ idx <= Len(stars[1])
          /\ Len(rows) = idx)
  /\ [](ioFailed => pc = "exit")
  /\ [](wtr # "none" =>
          /\ InEventOrder(DataRows(file), 1, 1, idx - 1)
          /\ InEventOrder(DataRows(buf), 1, 1, idx - 1)
          /\ ~ioFailed => DataRows(file \o buf) =
                             [k \in 1..(idx - 1) |-> CsvRecord(Row(StarOf(k)))])
  /\ [][rows' # rows =>
          /\ ~ioFailed
          /\ Len(rows) = idx - 1
          /\ rows' = Append(rows, Row(StarOf(idx)))
          /\ idx' = (IF ioFailed' THEN idx ELSE idx + 1)]_vars

\* Serializing the second Row of three failed; the first one is in the
\* file, put there when the writer was dropped.
C18_Witness ==
  /\ pc = "exit"
  /\ error.kind = "WriteError"
  /\ Len(stars[1]) = 3
  /\ idx = 2
  /\ Len(rows) = 2
  /\ DataRows(file) = <<CsvRecord(Row(StarOf(1)))>>
  /\ StarOf(1) # StarOf(2)

====
